---- MODULE Spec2Model ----
(***************************************************************************)
(* A model of joker.stream: the Stream handle (alias table, ownership set, *)
(* scoped release) and the ShellStream filter pipeline (filter chain,      *)
(* lazy iteration, copy, quote).                                           *)
(*                                                                         *)
(* File objects are identified by their address (CPython's id()).  The     *)
(* three standard streams live at the addresses 0, 1, 2; every other file  *)
(* object is allocated at a heap address and may be garbage collected, at  *)
(* which point the address can be handed out again.  A line is a sequence  *)
(* of one-character strings.                                               *)
(***************************************************************************)
EXTENDS Integers, Sequences, FiniteSets, TLC

\* ------------------------------------------------------------- bounds
MaxFiles == 1       \* heap addresses available to file objects
MaxHandles == 2     \* Stream / ShellStream objects alive at once

\* ------------------------------------------------- the standard streams
stdin == 0
stdout == 1
stderr == 2

Std == {stdin, stdout, stderr}
Heap == 3..(2 + MaxFiles)
H == 1..MaxHandles

\* The identifiers handed to Stream.open.  Python's integers 1 and 2 are
\* written "int:1" and "int:2" to keep them apart from the strings "1", "2".
Idents == {"int:1", "int:2", "", "-", "<stdin>", "<stdout>", "<stderr>",
           "1", "a.txt"}
\* The modes of the model; Stream.open is handed the text modes, a binary
\* file object comes from the caller or from Stream.wrap.
Modes == {"r", "w", "rb"}
OpenModes == {"r", "w"}
Classes == {"Stream", "ShellStream"}
Excs == {"None", "KeyError"}

VARIABLES
    files,      \* address -> the live file object at that address
    opened,     \* Stream.opened: the addresses registered by Stream.open
    handles,    \* handle id -> the live Stream / ShellStream object
    lists,      \* list id -> the filter list object (ShellStream.filters)
    iters,      \* iterator id -> the live iterator
    last,       \* the most recent call and what it returned or raised
    trace       \* the most recent next() / lines(): what it read and called

vars == <<files, opened, handles, lists, iters, last, trace>>

\* ------------------------------------------------------ file objects
\* origin: "std" (a standard stream), "factory" (created by the builtin
\* open inside Stream.open), "buffer" (created by Stream.wrap), "caller"
\* (created by the caller and handed to the constructor).
File(origin, mode, bytes, lines) ==
    [origin |-> origin, mode |-> mode, bytes |-> bytes, closed |-> FALSE,
     lines |-> lines, pos |-> 0]

StdFiles ==
    (stdin :> File("std", "r", FALSE, <<>>)) @@
    (stdout :> File("std", "w", FALSE, <<>>)) @@
    (stderr :> File("std", "w", FALSE, <<>>))

\* Stream._preopened
preopened ==
    (<<"int:1", "w">> :> stdout) @@
    (<<"int:2", "w">> :> stderr) @@
    (<<"", "r">> :> stdin) @@
    (<<"", "w">> :> stdout) @@
    (<<"-", "r">> :> stdin) @@
    (<<"-", "w">> :> stdout) @@
    (<<"<stdin>", "r">> :> stdin) @@
    (<<"<stdout>", "w">> :> stdout) @@
    (<<"<stderr>", "w">> :> stderr)

\* cls._preopened.get(k) is not None
PreopenedHit(k) == k \in DOMAIN preopened

\* The address the allocator hands to a new file object: a free one.
FreeAddrs == Heap \ DOMAIN files
NewAddr == CHOOSE a \in FreeAddrs : \A b \in FreeAddrs : a <= b

FreeHandles == H \ DOMAIN handles
NewHandle == CHOOSE h \in FreeHandles : \A g \in FreeHandles : h <= g

\* A handle refers to its file object and to its own filter list object.
FreeLists == H \ DOMAIN lists
NewList == CHOOSE l \in FreeLists : \A m \in FreeLists : l <= m

Handle(cls, f, l) == [cls |-> cls, file |-> f, flist |-> l]

\* self.filters
Filters(h) == lists[handles[h].flist]

Drop(fn, x) == [y \in DOMAIN fn \ {x} |-> fn[y]]

Ev(op, h, key, exc, ret) ==
    [op |-> op, h |-> h, key |-> key, exc |-> exc, ret |-> ret]

Empty == [i \in {} |-> 0]

\* No next() or lines() is the most recent call.
NoTrace == [op |-> "none"]

\* ------------------------------------------------- the ownership set
\* Stream.open, line 33: cls.opened[id(f)] = f, only for a file it opened.
OpenedAfterOpenAlways(f, hit) == opened \cup {f}
OpenedAfterOpenUnregistered(f, hit) == opened
OpenedAfterOpen(f, hit) == IF hit THEN opened ELSE opened \cup {f}

\* Stream.opened is a WeakValueDictionary: the entry of a file object goes
\* away with the object.
OpenedAfterCollectKept(f) == opened
OpenedAfterCollect(f) == opened \ {f}

\* Stream.__exit__, line 59: id(self.file) in self.opened
OwnedAny(f) == TRUE
OwnedNever(f) == FALSE
Owned(f) == f \in opened

\* ------------------------------------------------------- operations
\* Stream.open(file, mode) on class cls, the builtin open succeeding.
Open(cls, file, mode) ==
    /\ FreeHandles # {}
    /\ LET k == <<file, mode>>
           hit == PreopenedHit(k)
       IN  /\ hit \/ FreeAddrs # {}
           /\ LET f == IF hit THEN preopened[k] ELSE NewAddr
              IN  /\ last' = Ev("open", NewHandle, <<>>, "None", f)
                  /\ files' = IF hit THEN files
                              ELSE files @@ (f :> File("factory", mode, mode = "rb", <<>>))
                  /\ opened' = OpenedAfterOpen(f, hit)
                  /\ handles' = handles @@ (NewHandle :> Handle(cls, f, NewList))
                  /\ lists' = lists @@ (NewList :> <<>>)
    /\ UNCHANGED <<iters, trace>>

\* Stream.open(file, mode) for some pair that is no alias, the builtin open
\* raising (no such file, ...): the failure leaves line 32 and nothing is
\* registered or wrapped.
OpenFails ==
    /\ (Idents \X OpenModes) \ DOMAIN preopened # {}
    /\ last' = Ev("open", 0, <<>>, "OSError", 0)
    /\ UNCHANGED <<files, opened, handles, lists, iters, trace>>

\* Stream.wrap(content): a StringIO for a str (or for str(content)), a
\* BytesIO for bytes.
Wrap(cls, bytes) ==
    /\ FreeHandles # {}
    /\ FreeAddrs # {}
    /\ files' = files @@ (NewAddr :> File("buffer", "none", bytes, <<>>))
    /\ handles' = handles @@ (NewHandle :> Handle(cls, NewAddr, NewList))
    /\ lists' = lists @@ (NewList :> <<>>)
    /\ last' = Ev("wrap", NewHandle, <<>>, "None", NewAddr)
    /\ UNCHANGED <<opened, iters, trace>>

\* cls(file) on a file object the caller has just created itself.
ConstructNew(cls, mode) ==
    /\ FreeHandles # {}
    /\ FreeAddrs # {}
    /\ files' = files @@ (NewAddr :> File("caller", mode, mode = "rb", <<>>))
    /\ handles' = handles @@ (NewHandle :> Handle(cls, NewAddr, NewList))
    /\ lists' = lists @@ (NewList :> <<>>)
    /\ last' = Ev("init", NewHandle, <<>>, "None", NewAddr)
    /\ UNCHANGED <<opened, iters, trace>>

\* cls(file) on a file object that exists already: a standard stream, or
\* the .file of another handle.
ConstructOver(cls, f) ==
    /\ FreeHandles # {}
    /\ f \in DOMAIN files
    /\ handles' = handles @@ (NewHandle :> Handle(cls, f, NewList))
    /\ lists' = lists @@ (NewList :> <<>>)
    /\ last' = Ev("init", NewHandle, <<>>, "None", f)
    /\ UNCHANGED <<files, opened, iters, trace>>

\* ShellStream.__init__, line 106: self.filters = list(filters) is a list
\* object of the new handle's own.
CopiedListShared(h) == handles[h].flist
CopiedList(h) == NewList

\* ShellStream.copy: ShellStream(self.file, *self.filters)
Copy(h) ==
    /\ h \in DOMAIN handles
    /\ handles[h].cls = "ShellStream"
    /\ FreeHandles # {}
    /\ handles' = handles @@
         (NewHandle :> Handle("ShellStream", handles[h].file, CopiedList(h)))
    /\ lists' = (CopiedList(h) :> Filters(h)) @@ lists
    /\ last' = Ev("copy", h, <<>>, "None", NewHandle)
    /\ trace' = NoTrace
    /\ UNCHANGED <<files, opened, iters>>

\* Stream.__enter__
Enter(h) ==
    /\ h \in DOMAIN handles
    /\ last' = Ev("enter", h, <<>>, "None", h)
    /\ UNCHANGED <<files, opened, handles, lists, iters, trace>>

\* Stream.__exit__(exc_type, exc_val, exc_tb).  The file's own __exit__
\* closes it; last.key records the exception info the file's __exit__ was
\* given, last.ret = 0 is the None that Stream.__exit__ returns.
Exit(h, exc) ==
    /\ h \in DOMAIN handles
    /\ LET f == handles[h].file
       IN  IF Owned(f)
           THEN /\ files' = [files EXCEPT ![f].closed = TRUE]
                /\ last' = Ev("exit", h, <<exc>>, exc, 0)
           ELSE /\ files' = files
                /\ last' = Ev("exit", h, <<>>, exc, 0)
    /\ trace' = NoTrace
    /\ UNCHANGED <<opened, handles, lists, iters>>

\* The caller lets go of a handle.
Del(h) ==
    /\ h \in DOMAIN handles
    /\ \A i \in DOMAIN iters : iters[i].h # h
    /\ handles' = Drop(handles, h)
    /\ lists' = [l \in {handles[g].flist : g \in DOMAIN handles \ {h}} |-> lists[l]]
    /\ last' = Ev("del", h, <<>>, "None", 0)
    /\ UNCHANGED <<files, opened, iters, trace>>

\* A file object nothing refers to any more is collected; its weak entry
\* in Stream.opened disappears with it and its address becomes free.
Collect(f) ==
    /\ f \in DOMAIN files \cap Heap
    /\ \A h \in DOMAIN handles : handles[h].file # f
    /\ \A i \in DOMAIN iters : iters[i].file # f
    /\ files' = Drop(files, f)
    /\ opened' = OpenedAfterCollect(f)
    /\ last' = Ev("collect", 0, <<>>, "None", f)
    /\ UNCHANGED <<handles, lists, iters, trace>>

\* The interpreter has started: the standard streams exist, nothing has been
\* opened or wrapped.
Init ==
    /\ files = StdFiles
    /\ opened = {}
    /\ handles = Empty
    /\ lists = Empty
    /\ iters = Empty
    /\ last = Ev("start", 0, <<>>, "None", 0)
    /\ trace = NoTrace

Next ==
    \/ \E cls \in Classes, file \in Idents, mode \in OpenModes : Open(cls, file, mode)
    \/ OpenFails
    \/ \E cls \in Classes, bytes \in BOOLEAN : Wrap(cls, bytes)
    \/ \E cls \in Classes, mode \in Modes : ConstructNew(cls, mode)
    \/ \E cls \in Classes, f \in Std \cup Heap : ConstructOver(cls, f)
    \/ \E h \in H : Copy(h)
    \/ \E h \in H : Enter(h)
    \/ \E h \in H, exc \in Excs : Exit(h, exc)
    \/ \E h \in H : Del(h)
    \/ \E f \in Heap : Collect(f)

Spec == Init /\ [][Next]_vars

\* The operations that create and release handles and file objects, without
\* the scoped release and without copy.
NextOpen ==
    \/ \E cls \in Classes, file \in Idents, mode \in OpenModes : Open(cls, file, mode)
    \/ OpenFails
    \/ \E cls \in Classes, bytes \in BOOLEAN : Wrap(cls, bytes)
    \/ \E cls \in Classes, mode \in Modes : ConstructNew(cls, mode)
    \/ \E cls \in Classes, f \in Std \cup Heap : ConstructOver(cls, f)
    \/ \E h \in H : Del(h)
    \/ \E f \in Heap : Collect(f)

SpecOpen == Init /\ [][NextOpen]_vars

\* =================================================================
\* The filter pipeline
\* =================================================================
MaxLines == 2       \* raw lines in the underlying file
MaxFilters == 3     \* filters in one chain
MaxChain == 2       \* filters in a chain that is iterated
MaxIters == 2       \* iterators alive at once
MaxSolo == 1        \* iterators alive at once where one pipeline is iterated

It == 1..MaxIters

\* ------------------------------------------------------ line values
\* What a filter returns: a string, None (the DROP sentinel), or an
\* exception that leaves it.
Str(s) == [t |-> "str", s |-> s]
None == [t |-> "None", s |-> <<>>]
Raise(e) == [t |-> "raise", s |-> <<e>>]
Stop == [t |-> "stop", s |-> <<>>]

Min(S) == CHOOSE x \in S : \A y \in S : x <= y
Max(S) == CHOOSE x \in S : \A y \in S : x >= y

\* str.strip() with chars=None strips whitespace.
Whitespace == {" ", "\n", "\t"}
\* os.linesep on POSIX
Linesep == {"\n"}

\* s.strip(chars)
StrStrip(s, chars) ==
    LET keep == {i \in 1..Len(s) : s[i] \notin chars}
    IN  IF keep = {} THEN <<>> ELSE SubSeq(s, Min(keep), Max(keep))

\* s.rstrip(chars)
StrRStrip(s, chars) ==
    LET keep == {i \in 1..Len(s) : s[i] \notin chars}
    IN  IF keep = {} THEN <<>> ELSE SubSeq(s, 1, Max(keep))

\* s.replace("'", "'\"'\"'") inside shlex.quote
RECURSIVE EscapeQuotes(_)
EscapeQuotes(s) ==
    IF s = <<>> THEN <<>>
    ELSE (IF Head(s) = "'" THEN <<"'", "\"", "'", "\"", "'">> ELSE <<Head(s)>>)
         \o EscapeQuotes(Tail(s))

\* The characters shlex.quote leaves unquoted, among those of the model.
ShellSafe == {"x", "y", "-", ",", "0", "1"}

\* shlex.quote(s)
ShlexQuote(s) ==
    IF s = <<>> THEN <<"'", "'">>
    ELSE IF \A i \in 1..Len(s) : s[i] \in ShellSafe THEN s
    ELSE <<"'">> \o EscapeQuotes(s) \o <<"'">>

\* ShellStream.nonblank, line 147: lambda s: (s.strip() or None)
NonblankLambdaKeepsLine(s) ==
    IF StrStrip(s, Whitespace) = <<>> THEN None ELSE Str(s)
NonblankLambda(s) ==
    IF StrStrip(s, Whitespace) = <<>> THEN None ELSE Str(StrStrip(s, Whitespace))

\* One filter called on one line.  "snl", "nonblank", "strip" and "quote"
\* are the closures the methods of the same name append; "item0" is a
\* caller's function, operator.itemgetter(0), which raises on "".
CallFilter(f, s) ==
    CASE f = "snl" -> Str(StrRStrip(s, Linesep))
      [] f = "nonblank" -> NonblankLambda(s)
      [] f = "strip" -> Str(StrStrip(s, Whitespace))
      [] f = "quote" -> Str(ShlexQuote(s))
      [] f = "item0" -> IF s = <<>> THEN Raise("IndexError") ELSE Str(<<s[1]>>)

UserFuncs == {"item0"}

\* ------------------------------------------------- _apply_filters
\* line 114: if line is None: break
BreaksOnFalsy(r) == r.t = "None" \/ (r.t = "str" /\ r.s = <<>>)
Breaks(r) == r.t = "None"

\* line 113: line = f(line); an exception raised by f leaves the loop, the
\* method and the generator.
FilterOutcomeSwallowed(r) == IF r.t = "raise" THEN None ELSE r
FilterOutcome(r) == r

\* ShellStream._apply_filters(line) from the k-th filter on: the value it
\* returns (or the exception that leaves it) and the calls it made.
RECURSIVE ApplyFrom(_, _, _, _)
ApplyFrom(fs, k, line, calls) ==
    IF k > Len(fs) THEN [val |-> Str(line), calls |-> calls]
    ELSE LET r == FilterOutcome(CallFilter(fs[k], line))
             made == Append(calls, [f |-> fs[k], idx |-> k, arg |-> line, res |-> r])
         IN  IF r.t = "raise" THEN [val |-> r, calls |-> made]
             ELSE IF Breaks(r) THEN [val |-> r, calls |-> made]
             ELSE ApplyFrom(fs, k + 1, r.s, made)

ApplyFilters(fs, line) == ApplyFrom(fs, 1, line, <<>>)

\* ---------------------------------------------------- _iter_lines
\* line 121: if line is not None: yield line
YieldsTruthy(v) == v.t = "str" /\ v.s # <<>>
Yields(v) == v.t = "str"

\* line 119: for line in self.file takes one line from the file per step.
PosAfterReadAhead(pos, n) == IF pos + 2 <= n THEN pos + 2 ELSE n
PosAfterRead(pos, n) == pos + 1

\* next(file) on the file object: ValueError when it is closed,
\* StopIteration at the end, else the next line.
FileNext(fo) ==
    IF fo.closed THEN [pos |-> fo.pos, res |-> Raise("ValueError")]
    ELSE IF fo.pos >= Len(fo.lines) THEN [pos |-> fo.pos, res |-> Stop]
    ELSE [pos |-> PosAfterRead(fo.pos, Len(fo.lines)), res |-> Str(fo.lines[fo.pos + 1])]

\* One next() on the generator of _iter_lines, the file object being fo and
\* self.filters being fs: raw lines are taken and filtered until one is
\* yielded, the file ends or an exception leaves the generator.
\* raws: the raw lines taken; calls: the filter calls made for each.
RECURSIVE GenNext(_, _, _, _)
GenNext(fs, fo, raws, calls) ==
    LET rd == FileNext(fo)
    IN  IF rd.res.t # "str"
        THEN [pos |-> rd.pos, res |-> rd.res, raws |-> raws, calls |-> calls]
        ELSE LET a == ApplyFilters(fs, rd.res.s)
                 raws2 == Append(raws, rd.res.s)
                 calls2 == Append(calls, a.calls)
             IN  IF a.val.t = "raise" \/ Yields(a.val)
                 THEN [pos |-> rd.pos, res |-> a.val, raws |-> raws2, calls |-> calls2]
                 ELSE GenNext(fs, [fo EXCEPT !.pos = rd.pos], raws2, calls2)

\* One next() on iter(self.file), which is the file object itself.
RawNext(fo) ==
    LET rd == FileNext(fo)
    IN  [pos |-> rd.pos, res |-> rd.res,
         raws |-> IF rd.res.t = "str" THEN <<rd.res.s>> ELSE <<>>,
         calls |-> <<>>]

\* ------------------------------------------------------- iterators
FreeIters == It \ DOMAIN iters
NewIter == CHOOSE i \in FreeIters : \A j \in FreeIters : i <= j

\* ShellStream.__iter__, line 125: if self.filters
UsesGeneratorAlways(h) == TRUE
UsesGenerator(h) == handles[h].cls = "ShellStream" /\ Filters(h) # <<>>

\* iter(handle): Stream.__iter__ / ShellStream.__iter__.  A generator keeps
\* its handle (self); the raw iterator is the file object.
\* out, raw: what the iterator has yielded so far and the numbers of the
\* raw lines it took; n0: the length of self.filters when it was made.
Iter(h) ==
    /\ h \in DOMAIN handles
    /\ FreeIters # {}
    /\ iters' = iters @@ (NewIter :>
          [kind |-> IF UsesGenerator(h) THEN "gen" ELSE "raw",
           h |-> h, file |-> handles[h].file, done |-> FALSE,
           n0 |-> Len(Filters(h)), out |-> <<>>, raw |-> <<>>])
    /\ last' = Ev("iter", h, <<>>, "None", NewIter)
    /\ trace' = NoTrace
    /\ UNCHANGED <<files, opened, handles, lists>>

\* _apply_filters, line 112: for f in self.filters reads the list the
\* pipeline has when the line is filtered, not the one it had when the
\* generator was made.
ChainSnapshot(it) == SubSeq(Filters(it.h), 1, it.n0)
ChainOf(it) == Filters(it.h)

\* next(it).  A generator that has returned or raised is finished: every
\* later next() raises StopIteration without running any of its code.
Pull(i) ==
    /\ i \in DOMAIN iters
    /\ LET it == iters[i]
           fo == files[it.file]
           r == IF it.kind = "raw" THEN RawNext(fo)
                ELSE IF it.done THEN [pos |-> fo.pos, res |-> Stop, raws |-> <<>>, calls |-> <<>>]
                ELSE GenNext(ChainOf(it), fo, <<>>, <<>>)
       IN  /\ files' = [files EXCEPT ![it.file].pos = r.pos]
           /\ iters' = [iters EXCEPT
                 ![i].done = (it.kind = "gen" /\ r.res.t # "str"),
                 ![i].out = IF r.res.t = "str" THEN Append(@, r.res.s) ELSE @,
                 ![i].raw = @ \o [k \in 1..Len(r.raws) |-> fo.pos + k]]
           /\ trace' = [op |-> "next", it |-> i, h |-> it.h, file |-> it.file,
                        kind |-> it.kind, was |-> it.done, fs |-> ChainOf(it),
                        from |-> fo.pos, raws |-> r.raws, calls |-> r.calls,
                        res |-> r.res]
           /\ last' = Ev("next", it.h, <<>>, "None", i)
    /\ UNCHANGED <<opened, handles, lists>>

\* list(it) on a fresh iterator: next() until StopIteration; an exception
\* leaves list() and the items collected so far are lost.
RECURSIVE Drain(_, _, _, _)
Drain(gen, fs, fo, acc) ==
    LET r == IF gen THEN GenNext(fs, fo, <<>>, <<>>) ELSE RawNext(fo)
    IN  IF r.res.t = "str"
        THEN Drain(gen, fs, [fo EXCEPT !.pos = r.pos],
                   [items |-> Append(acc.items, r.res.s), raws |-> acc.raws \o r.raws])
        ELSE [pos |-> r.pos, res |-> r.res, items |-> acc.items,
              raws |-> acc.raws \o r.raws]

\* ShellStream.lines: list(self)
Lines(h) ==
    /\ h \in DOMAIN handles
    /\ handles[h].cls = "ShellStream"
    /\ LET f == handles[h].file
           d == Drain(UsesGenerator(h), Filters(h), files[f], [items |-> <<>>, raws |-> <<>>])
       IN  /\ files' = [files EXCEPT ![f].pos = d.pos]
           /\ trace' = [op |-> "lines", it |-> 0, h |-> h, file |-> f,
                        kind |-> IF UsesGenerator(h) THEN "gen" ELSE "raw",
                        was |-> FALSE, fs |-> Filters(h),
                        from |-> files[f].pos, raws |-> d.raws, calls |-> <<>>,
                        res |-> IF d.res.t = "stop" THEN [t |-> "list", s |-> d.items]
                                ELSE d.res]
           /\ last' = Ev("lines", h, <<>>, "None", 0)
    /\ UNCHANGED <<opened, handles, lists, iters>>

\* The caller lets go of an iterator.
DelIter(i) ==
    /\ i \in DOMAIN iters
    /\ iters' = Drop(iters, i)
    /\ last' = Ev("deliter", 0, <<>>, "None", i)
    /\ trace' = NoTrace
    /\ UNCHANGED <<files, opened, handles, lists>>

\* --------------------------------------------- building the chain
\* self.filters.extend(funcs) / self.filters.append(func) on the list
\* object of handle h.
Extend(h, funcs) ==
    /\ h \in DOMAIN handles
    /\ handles[h].cls = "ShellStream"
    /\ Len(Filters(h)) + Len(funcs) <= MaxFilters
    /\ lists' = [lists EXCEPT ![handles[h].flist] = @ \o funcs]
    /\ trace' = NoTrace
    /\ UNCHANGED <<files, opened, handles, iters>>

\* ShellStream.add_filters(*funcs); returns self
AddFilters(h, funcs) ==
    /\ Extend(h, funcs)
    /\ last' = Ev("add_filters", h, funcs, "None", h)

\* ShellStream.__call__(func): appends lambda s: func(s); returns self
Call(h, func) ==
    /\ Extend(h, <<func>>)
    /\ last' = Ev("call", h, <<func>>, "None", h)

\* ShellStream.snl(extra_func); returns self
Snl(h, extra) ==
    /\ Extend(h, <<"snl">> \o extra)
    /\ last' = Ev("snl", h, extra, "None", h)

\* ShellStream.nonblank(extra_func); returns self
Nonblank(h, extra) ==
    /\ Extend(h, <<"nonblank">> \o extra)
    /\ last' = Ev("nonblank", h, extra, "None", h)

\* ShellStream.strip(); returns self
Strip(h) ==
    /\ Extend(h, <<"strip">>)
    /\ last' = Ev("strip", h, <<>>, "None", h)

\* extra_func=None, or a caller's function
Extras == {<<>>} \cup {<<f>> : f \in UserFuncs}
FuncLists == {<<>>} \cup {<<f>> : f \in UserFuncs} \cup {<<f, g>> : f \in UserFuncs, g \in UserFuncs}

\* The raw lines a text file of the model is made of; only the last line
\* of a file may lack its line separator.
FullLines == {<<" ", "x", "\n">>, <<"\n">>}
LastLines == FullLines

Contents(n) ==
    {c \in UNION {[1..m -> LastLines] : m \in 0..n} :
        \A i \in 1..(Len(c) - 1) : c[i] \in FullLines}

\* One handle of class cls has been made over the file object fo, by
\* cls.open(path, mode) (origin "factory"), by cls.wrap(content) (origin
\* "buffer") or by cls.open(alias, mode) (a standard stream); when fo is
\* closed, the handle has been entered and exited since.
HandleOver(cls, fo) ==
    LET f == IF fo.origin = "std" THEN CHOOSE a \in Std : StdFiles[a] = fo ELSE Min(Heap)
    IN  /\ files = IF fo.origin = "std" THEN StdFiles ELSE StdFiles @@ (f :> fo)
        /\ opened = IF fo.origin = "factory" THEN {f} ELSE {}
        /\ handles = (1 :> Handle(cls, f, 1))
        /\ lists = (1 :> <<>>)
        /\ iters = Empty
        /\ last = IF fo.closed THEN Ev("exit", 1, <<"None">>, "None", 0)
                  ELSE Ev(IF fo.origin = "buffer" THEN "wrap" ELSE "open", 1, <<>>, "None", f)
        /\ trace = NoTrace

\* A handle has been returned by cls.open(path) for a text file, and may
\* have been used in a with statement that has closed the file.
InitPipe ==
    \E c \in Contents(MaxLines), cls \in Classes, closed \in BOOLEAN :
        HandleOver(cls, [File("factory", "r", FALSE, c) EXCEPT !.closed = closed])

\* The chain of handle h can take n more filters and still be iterated
\* within the bound.
Room(h, n) == h \in DOMAIN handles /\ Len(Filters(h)) + n <= MaxChain

\* One more iterator can be made within the bound.
Solo == Cardinality(DOMAIN iters) < MaxSolo

NextPipe ==
    \/ \E h \in H, funcs \in FuncLists : Room(h, Len(funcs)) /\ AddFilters(h, funcs)
    \/ \E h \in H, func \in UserFuncs : Room(h, 1) /\ Call(h, func)
    \/ \E h \in H, extra \in Extras : Room(h, 1 + Len(extra)) /\ Nonblank(h, extra)
    \/ \E h \in H : Room(h, 1) /\ Strip(h)
    \/ \E h \in H : Solo /\ Iter(h)
    \/ \E i \in It : Pull(i)
    \/ \E i \in It : DelIter(i)
    \/ \E h \in H : Lines(h)

SpecPipe == InitPipe /\ [][NextPipe]_vars

\* ------------------------------------------------------------ race
\* The chains of at most n filters made by strip() and nonblank().
RECURSIVE Chains(_)
Chains(n) ==
    IF n = 0 THEN {<<>>}
    ELSE Chains(n - 1) \cup
         {c \o <<f>> : c \in Chains(n - 1), f \in {"strip", "nonblank"}}

\* p = ShellStream.open(path) for a text file was given the chain c by
\* strip() and nonblank(), q = p.copy() was made, and q was given the
\* filters more the same way.
InitRace ==
    \E c \in Contents(MaxLines), fs \in Chains(MaxChain), more \in Chains(MaxChain) :
        /\ Len(fs) + Len(more) <= MaxChain
        /\ files = StdFiles @@ (Min(Heap) :> File("factory", "r", FALSE, c))
        /\ opened = {Min(Heap)}
        /\ handles = (1 :> Handle("ShellStream", Min(Heap), 1)) @@
                     (2 :> Handle("ShellStream", Min(Heap), 2))
        /\ lists = (1 :> fs) @@ (2 :> fs \o more)
        /\ iters = Empty
        /\ last = IF more = <<>> THEN Ev("copy", 1, <<>>, "None", 2)
                  ELSE Ev(more[Len(more)], 2, <<>>, "None", 2)
        /\ trace = NoTrace

\* The two pipelines are iterated in any interleaving.
NextRace ==
    \/ \E h \in H : Iter(h)
    \/ \E i \in It : Pull(i)

SpecRace == InitRace /\ [][NextRace]_vars


\* ------------------------------------------------------------ copy
\* A ShellStream has just been made over an empty text file, by
\* ShellStream.open(path) or by ShellStream.wrap("").
InitCopy ==
    \E origin \in {"factory", "buffer"} :
        HandleOver("ShellStream",
                   File(origin, IF origin = "factory" THEN "r" ELSE "none", FALSE, <<>>))

NextCopy ==
    \/ \E h \in H : Copy(h)
    \/ \E h \in H, funcs \in FuncLists : AddFilters(h, funcs)
    \/ \E h \in H, func \in UserFuncs : Call(h, func)
    \/ \E h \in H : Strip(h)

SpecCopy == InitCopy /\ [][NextCopy]_vars

\* ----------------------------------------------------------- quote
\* 'b' in mode, for the modes a file object can report
HasB(mode) == mode \in {"rb", "wb", "ab"}

\* Stream.is_binary: the mode when the file has one ("none": the attribute
\* is missing and Stream.__getattr__ gives None); else the type of
\* self.file.read(0), and None when that raises (a closed buffer).
IsBinaryModeOnly(h) ==
    LET fo == files[handles[h].file]
    IN  IF fo.mode # "none" THEN (IF HasB(fo.mode) THEN "True" ELSE "False")
        ELSE "None"
IsBinary(h) ==
    LET fo == files[handles[h].file]
    IN  IF fo.mode # "none" THEN (IF HasB(fo.mode) THEN "True" ELSE "False")
        ELSE IF fo.closed THEN "None"
        ELSE IF fo.bytes THEN "True" ELSE "False"

\* ShellStream.quote(strip): TypeError on a binary file, before anything is
\* appended; else self.strip() when strip, then add_filters(shlex.quote).
Quote(h, strip) ==
    /\ h \in DOMAIN handles
    /\ handles[h].cls = "ShellStream"
    /\ IF IsBinary(h) = "True"
       THEN /\ last' = Ev("quote", h, <<strip>>, "TypeError", 0)
            /\ trace' = NoTrace
            /\ UNCHANGED <<files, opened, handles, lists, iters>>
       ELSE /\ Extend(h, (IF strip THEN <<"strip">> ELSE <<>>) \o <<"quote">>)
            /\ last' = Ev("quote", h, <<strip>>, "None", h)

\* handle.close(): Stream.__getattr__ forwards close to the file object,
\* owned or not.
Close(h) ==
    /\ h \in DOMAIN handles
    /\ files' = [files EXCEPT ![handles[h].file].closed = TRUE]
    /\ last' = Ev("close", h, <<>>, "None", 0)
    /\ trace' = NoTrace
    /\ UNCHANGED <<opened, handles, lists, iters>>

\* The file objects quote() is tried on: text and binary files opened by
\* path, StringIO and BytesIO buffers, the standard streams.
QuoteFiles ==
    {File("factory", m, m = "rb", <<>>) : m \in Modes} \cup
    {File("buffer", "none", b, <<>>) : b \in BOOLEAN} \cup
    {StdFiles[a] : a \in Std}

InitQuote == \E fo \in QuoteFiles : HandleOver("ShellStream", fo)

NextQuote ==
    \/ \E h \in H, strip \in BOOLEAN : Quote(h, strip)
    \/ \E h \in H : Strip(h)
    \/ \E h \in H : Close(h)
    \/ \E h \in H : Copy(h)

SpecQuote == InitQuote /\ [][NextQuote]_vars

\* ------------------------------------------------ ownership: claims
FactoryFiles == {f \in DOMAIN files : files[f].origin = "factory"}

\* C1: a resource that Stream.open did not create itself (a standard stream
\* behind an alias, a caller-supplied file, an in-memory buffer) is never
\* closed by a handle's exit, however many handles wrap it and however often
\* they are exited.
C1_NonOwnedNeverClosed ==
    \A f \in DOMAIN files : files[f].origin # "factory" => ~files[f].closed

\* Two handles wrap standard output, reached through an alias, and one of
\* them has just been exited.
C1_Witness ==
    /\ last.op = "exit"
    /\ last.h \in DOMAIN handles
    /\ handles[last.h].file = stdout
    /\ \E g \in DOMAIN handles : g # last.h /\ handles[g].file = stdout

\* C2: the ownership set holds exactly the file objects Stream.open created:
\* an alias hit returns a handle on the shared stream and registers nothing,
\* any other pair creates a file object and registers it, wrap and the
\* constructor register nothing.
C2_State ==
    /\ opened = FactoryFiles
    /\ (last.op = "open" /\ last.exc = "None") =>
          /\ last.h \in DOMAIN handles
          /\ handles[last.h].file = last.ret
          /\ last.ret \in opened <=> last.ret \notin Std
    /\ last.op = "wrap" => last.ret \notin opened

\* What Stream.open(file, mode) does to the ownership set.
C2_OpenStep(file, mode) ==
    IF <<file, mode>> \in DOMAIN preopened
    THEN /\ last'.ret = preopened[<<file, mode>>]
         /\ opened' = opened
         /\ files' = files
    ELSE /\ last'.ret \notin DOMAIN files
         /\ \A g \in DOMAIN handles : handles[g].file # last'.ret
         /\ opened' = opened \cup {last'.ret}

C2_Step ==
    /\ (last'.op = "open" /\ last'.exc = "None") =>
          \A file \in Idents, mode \in OpenModes :
              Open(handles'[last'.h].cls, file, mode) => C2_OpenStep(file, mode)
    /\ last'.op \in {"wrap", "init", "del"} => opened' = opened
    /\ (last'.op = "open" /\ last'.exc # "None") => opened' = opened

C2_OwnershipExact == []C2_State /\ [][C2_Step]_vars

\* Stream.open has just returned a handle on a file object it created and
\* registered, while another handle wraps standard input, reached through
\* an alias.
C2_Witness ==
    /\ last.op = "open"
    /\ last.exc = "None"
    /\ last.ret \in opened
    /\ \E g \in DOMAIN handles : handles[g].file = stdin /\ g # last.h

\* C3: exiting a handle on a file object that Stream.open created closes the
\* file, hands the exception info to the file's own exit and returns None;
\* entering returns the handle itself and changes nothing.
C3_State ==
    /\ (last.op = "exit" /\ files[handles[last.h].file].origin = "factory") =>
          /\ files[handles[last.h].file].closed
          /\ last.key = <<last.exc>>
          /\ last.ret = 0
    /\ last.op = "enter" => last.ret = last.h

C3_Step ==
    last'.op = "enter" => UNCHANGED <<files, opened, handles, lists, iters, trace>>

C3_ExitClosesOwned == []C3_State /\ [][C3_Step]_vars

\* A handle returned by Stream.open for a path has been exited while an
\* exception was propagating.
C3_Witness ==
    /\ last.op = "exit"
    /\ last.exc = "KeyError"
    /\ files[handles[last.h].file].origin = "factory"
    /\ files[handles[last.h].file].closed

\* ------------------------------------------------- pipeline: claims
\* The value of a chain on a line, stated filter by filter: the k-th value
\* is the k-th filter applied to the previous value while that is a string,
\* and stays what it was once it is None or an exception.
ChainValue(fs, line) ==
    LET st[k \in 0..Len(fs)] ==
            IF k = 0 THEN Str(line)
            ELSE IF st[k - 1].t = "str" THEN CallFilter(fs[k], st[k - 1].s)
            ELSE st[k - 1]
    IN  st[Len(fs)]

IsStr(v) == v.t = "str"

\* The strings a chain lets through, in the order of their lines.
Survivors(fs, ls) ==
    LET kept == SelectSeq([j \in 1..Len(ls) |-> ChainValue(fs, ls[j])], IsStr)
    IN  [j \in 1..Len(kept) |-> kept[j].s]

GenPull == trace.op = "next" /\ trace.kind = "gen" /\ ~trace.was

\* C4: for every raw line the filters are called in attachment order, each
\* on the previous one's result; after a filter has returned None no later
\* filter is called for the line and the line is not yielded; otherwise the
\* value of the last filter is what is yielded.
C4_OrderedShortCircuit ==
    GenPull =>
      \A j \in 1..Len(trace.raws) :
        LET cs == trace.calls[j]
            n == Len(trace.fs)
            final == j = Len(trace.raws) /\ trace.res.t \in {"str", "raise"}
        IN  /\ Len(cs) <= n
            /\ \A k \in 1..Len(cs) :
                  /\ cs[k].idx = k
                  /\ cs[k].f = trace.fs[k]
                  /\ cs[k].arg = IF k = 1 THEN trace.raws[j] ELSE cs[k - 1].res.s
                  /\ cs[k].res = CallFilter(trace.fs[k], cs[k].arg)
                  /\ k < Len(cs) => cs[k].res.t = "str"
            /\ Len(cs) < n => cs[Len(cs)].res.t \in {"None", "raise"}
            /\ (Len(cs) > 0 /\ cs[Len(cs)].res.t = "None") => ~final
            /\ (final /\ trace.res.t = "str") =>
                  /\ Len(cs) = n
                  /\ trace.res = IF n = 0 THEN Str(trace.raws[j]) ELSE cs[n].res
            /\ ~final => Len(cs) > 0 /\ cs[Len(cs)].res.t = "None"

\* One next() took two raw lines: the first was dropped by the first of two
\* filters and the second filter was not called for it, the second went
\* through both filters and was yielded.
C4_Witness ==
    /\ GenPull
    /\ Len(trace.fs) = 2
    /\ Len(trace.raws) = 2
    /\ Len(trace.calls[1]) = 1
    /\ trace.calls[1][1].res = None
    /\ Len(trace.calls[2]) = 2
    /\ trace.calls[2][1].res.s # trace.raws[2]
    /\ trace.calls[2][2].arg = trace.calls[2][1].res.s
    /\ trace.res.t = "str"

FileLines(f, idx) == [j \in 1..Len(idx) |-> files[f].lines[idx[j]]]

Increasing(idx) == \A j \in 1..(Len(idx) - 1) : idx[j] < idx[j + 1]

\* C5: what an iteration of a pipeline has produced is the raw lines it
\* took, each replaced by its chain value, the dropped ones left out:
\* survivors keep the order of their raw lines and a raw line gives at most
\* one item.  lines() returns that sequence for all the remaining lines.
C5_OutputIsFilteredMap ==
    /\ \A i \in DOMAIN iters :
          LET it == iters[i]
          IN  (it.kind = "gen" /\ Len(Filters(it.h)) = it.n0) =>
                 /\ Increasing(it.raw)
                 /\ it.out = Survivors(Filters(it.h), FileLines(it.file, it.raw))
    /\ (trace.op = "lines" /\ trace.res.t = "list") =>
          /\ trace.res.s = Survivors(trace.fs,
                SubSeq(files[trace.file].lines, trace.from + 1, Len(files[trace.file].lines)))
          /\ files[trace.file].pos = Len(files[trace.file].lines)

\* An iteration has taken two raw lines, dropped the first and yielded the
\* second changed by the chain.
C5_Witness ==
    \E i \in DOMAIN iters :
        /\ iters[i].kind = "gen"
        /\ Len(Filters(iters[i].h)) = iters[i].n0
        /\ iters[i].raw = <<1, 2>>
        /\ Len(iters[i].out) = 1
        /\ iters[i].out[1] # files[iters[i].file].lines[2]

\* C6: one next() takes raw lines only up to and including the first one
\* that survives the chain, and leaves the file positioned just after it.
C6_NoReadAhead ==
    GenPull =>
      LET n == Len(trace.raws)
          fo == files[trace.file]
      IN  /\ fo.pos = trace.from + n
          /\ trace.raws = SubSeq(fo.lines, trace.from + 1, trace.from + n)
          /\ \A j \in 1..(n - 1) : ChainValue(trace.fs, trace.raws[j]) = None
          /\ trace.res.t = "str" =>
                /\ n >= 1
                /\ ChainValue(trace.fs, trace.raws[n]) = trace.res
          /\ \A i \in DOMAIN iters :
                (i = trace.it /\ iters[i].raw # <<>> /\ trace.res.t = "str") =>
                    fo.pos = iters[i].raw[Len(iters[i].raw)]

\* A next() has yielded the first line of a file of two lines and the
\* second line is still unread.
C6_Witness ==
    /\ GenPull
    /\ trace.res.t = "str"
    /\ trace.from = 0
    /\ Len(trace.raws) = 1
    /\ Len(files[trace.file].lines) = 2
    /\ files[trace.file].pos = 1

\* C7: with an empty filter chain iteration yields the raw lines of the
\* file, in order and unchanged, until the file is exhausted; iterating
\* again after that yields nothing.
C7_EmptyChainIsRaw ==
    /\ (last.op = "iter" /\ Filters(last.h) = <<>>) => iters[last.ret].kind = "raw"
    /\ \A i \in DOMAIN iters :
          iters[i].kind = "raw" =>
             /\ Increasing(iters[i].raw)
             /\ iters[i].out = FileLines(iters[i].file, iters[i].raw)
    /\ (trace.op = "next" /\ trace.kind = "raw" /\ ~files[trace.file].closed) =>
          LET fo == files[trace.file]
          IN  IF trace.from < Len(fo.lines)
              THEN trace.res = Str(fo.lines[trace.from + 1]) /\ fo.pos = trace.from + 1
              ELSE trace.res = Stop /\ fo.pos = trace.from
    /\ (trace.op = "lines" /\ trace.fs = <<>> /\ ~files[trace.file].closed) =>
          LET fo == files[trace.file]
          IN  /\ trace.res = [t |-> "list", s |-> SubSeq(fo.lines, trace.from + 1, Len(fo.lines))]
              /\ fo.pos = Len(fo.lines)

\* A raw iterator has yielded both lines of a file, and lines() on the
\* exhausted file has then returned the empty list.
C7_Witness ==
    /\ trace.op = "lines"
    /\ trace.fs = <<>>
    /\ trace.from = 2
    /\ trace.res = [t |-> "list", s |-> <<>>]
    /\ \E i \in DOMAIN iters :
          /\ iters[i].kind = "raw"
          /\ iters[i].out = files[iters[i].file].lines
          /\ Len(iters[i].out) = 2

\* C9: when a filter fails on a raw line, the next() that reaches the line
\* raises that very exception, after the earlier survivors have been
\* yielded; no failing line is passed over, the line is not tried again, and
\* the iterator yields nothing afterwards.
C9_FailurePropagates ==
    /\ GenPull =>
          LET n == Len(trace.raws)
          IN  /\ \A j \in 1..n :
                    ChainValue(trace.fs, trace.raws[j]).t = "raise" =>
                        /\ j = n
                        /\ trace.res = ChainValue(trace.fs, trace.raws[j])
                        /\ files[trace.file].pos = trace.from + n
              /\ trace.res.t = "raise" =>
                    \A i \in DOMAIN iters : i = trace.it =>
                        /\ iters[i].done
                        /\ Len(Filters(iters[i].h)) = iters[i].n0 =>
                              iters[i].out =
                                  Survivors(trace.fs,
                                      FileLines(trace.file, SubSeq(iters[i].raw, 1, Len(iters[i].raw) - n))
                                      \o SubSeq(trace.raws, 1, n - 1))
    /\ (trace.op = "next" /\ trace.kind = "gen" /\ trace.was) =>
          /\ trace.res = Stop
          /\ trace.raws = <<>>
          /\ files[trace.file].pos = trace.from
    /\ (trace.op = "lines" /\ trace.kind = "gen") =>
          \A j \in 1..Len(trace.raws) :
              ChainValue(trace.fs, trace.raws[j]).t = "raise" =>
                  /\ j = Len(trace.raws)
                  /\ trace.res = ChainValue(trace.fs, trace.raws[j])

\* An iterator yielded a first line and its next next() raised the
\* IndexError of a filter on the second line; the iterator is finished.
C9_Witness ==
    /\ GenPull
    /\ trace.res = Raise("IndexError")
    /\ \E i \in DOMAIN iters :
          /\ i = trace.it
          /\ iters[i].done
          /\ Len(iters[i].out) = 1
          /\ iters[i].raw = <<1, 2>>

\* A finished iterator has been asked again and has raised StopIteration
\* without reading.
C9_WitnessAfter ==
    /\ trace.op = "next"
    /\ trace.kind = "gen"
    /\ trace.was
    /\ files[trace.file].pos < Len(files[trace.file].lines)

\* ----------------------------------------------------- copy: claims
AddOps == {"add_filters", "call", "snl", "nonblank", "strip", "quote"}

\* C8: copy() gives a new pipeline over the same file with the same filters
\* in the same order; what is appended to the copy afterwards does not show
\* in the original, and what is appended to the original does not show in
\* the copy.
C8_State ==
    last.op = "copy" =>
        /\ last.ret \in DOMAIN handles
        /\ last.ret # last.h
        /\ handles[last.ret].file = handles[last.h].file
        /\ handles[last.ret].cls = "ShellStream"
        /\ Filters(last.ret) = Filters(last.h)

C8_Step ==
    /\ last'.op \in AddOps =>
          /\ \A g \in DOMAIN handles :
                g # last'.h => lists'[handles'[g].flist] = lists[handles[g].flist]
          /\ Len(lists'[handles'[last'.h].flist]) >= Len(lists[handles[last'.h].flist])
          /\ SubSeq(lists'[handles'[last'.h].flist], 1, Len(lists[handles[last'.h].flist]))
                = lists[handles[last'.h].flist]
    /\ last'.op = "copy" =>
          \A g \in DOMAIN handles : lists'[handles'[g].flist] = lists[handles[g].flist]

C8_CopyIndependent == []C8_State /\ [][C8_Step]_vars

\* A pipeline of two filters was copied and a third filter has just been
\* appended to one of the two: that one has three filters, the other two.
C8_Witness ==
    /\ last.op \in AddOps
    /\ \E g \in DOMAIN handles :
          /\ g # last.h
          /\ handles[g].file = handles[last.h].file
          /\ Len(Filters(g)) = 2
          /\ Len(Filters(last.h)) = 3
          /\ SubSeq(Filters(last.h), 1, 2) = Filters(g)

\* ---------------------------------------------------- quote: claims
\* The file is binary: its mode has the binary marker, or it has no mode
\* and a zero-length read returns bytes.
BinaryFile(fo) ==
    \/ fo.mode \in {"rb"}
    \/ fo.mode = "none" /\ ~fo.closed /\ fo.bytes

\* C10: quote() on a binary file raises TypeError and neither appends a
\* filter nor reads a line; on any other file, with strip it appends the
\* strip filter and then the quoting filter and returns the pipeline.
C10_Step ==
    last'.op = "quote" =>
        LET h == last'.h
            old == lists[handles[h].flist]
            new == lists'[handles'[h].flist]
        IN  IF BinaryFile(files[handles[h].file])
            THEN /\ last'.exc = "TypeError"
                 /\ UNCHANGED <<files, opened, handles, lists, iters>>
            ELSE /\ last'.exc = "None"
                 /\ last'.ret = h
                 /\ new = old \o (IF last'.key = <<TRUE>> THEN <<"strip", "quote">>
                                   ELSE <<"quote">>)
                 /\ UNCHANGED <<files, opened, handles, iters>>

C10_QuoteRejectsBinary == [][C10_Step]_vars

\* quote() has just raised TypeError on a pipeline over a BytesIO buffer,
\* whose chain still is the one strip filter it had.
C10_Witness ==
    /\ last.op = "quote"
    /\ last.exc = "TypeError"
    /\ files[handles[last.h].file].mode = "none"
    /\ files[handles[last.h].file].bytes
    /\ Filters(last.h) = <<"strip">>

\* quote(strip=True) has just appended strip and the quoting filter to a
\* pipeline over a text file.
C10_WitnessText ==
    /\ last.op = "quote"
    /\ last.exc = "None"
    /\ Filters(last.h) = <<"strip", "quote">>
    /\ files[handles[last.h].file].mode = "r"

\* ----------------------------------------- filter library: claims
Blank(s) == \A i \in 1..Len(s) : s[i] \in Whitespace

\* r is s without its leading and trailing whitespace.
IsStripped(r, s) ==
    \E i \in 1..Len(s), j \in 1..Len(s) :
        /\ i <= j
        /\ r = SubSeq(s, i, j)
        /\ s[i] \notin Whitespace
        /\ s[j] \notin Whitespace
        /\ \A k \in 1..Len(s) : (k < i \/ k > j) => s[k] \in Whitespace

\* C11: the nonblank filter returns None exactly for a line that is empty
\* once stripped of whitespace, and no later filter (the extra one included)
\* is called for such a line; for any other line it returns the stripped
\* content, which is what the next filter receives.  nonblank(extra)
\* appends the filter and, right after it, the extra function when given.
C11_State ==
    GenPull =>
      \A j \in 1..Len(trace.raws) :
        LET cs == trace.calls[j]
        IN  \A k \in 1..Len(cs) :
              cs[k].f = "nonblank" =>
                 /\ cs[k].res = None <=> Blank(cs[k].arg)
                 /\ Blank(cs[k].arg) => k = Len(cs)
                 /\ ~Blank(cs[k].arg) =>
                       /\ cs[k].res.t = "str"
                       /\ IsStripped(cs[k].res.s, cs[k].arg)
                       /\ k < Len(cs) => cs[k + 1].arg = cs[k].res.s
                       /\ k < Len(trace.fs) => k < Len(cs)

C11_Step ==
    last'.op = "nonblank" =>
        LET h == last'.h
        IN  /\ lists'[handles'[h].flist] =
                  lists[handles[h].flist] \o <<"nonblank">> \o last'.key
            /\ last'.ret = h
            /\ UNCHANGED <<files, opened, handles, iters>>

C11_NonblankDropsBlank == []C11_State /\ [][C11_Step]_vars

\* nonblank(extra) built the chain; one next() took a blank line, for which
\* the extra function was not called, and then a line with surrounding
\* whitespace, whose stripped content the extra function received.
C11_Witness ==
    /\ GenPull
    /\ trace.fs = <<"nonblank", "item0">>
    /\ Len(trace.raws) = 2
    /\ Blank(trace.raws[1])
    /\ Len(trace.calls[1]) = 1
    /\ Len(trace.calls[2]) = 2
    /\ trace.calls[2][1].res.s # trace.raws[2]
    /\ trace.calls[2][2].arg = trace.calls[2][1].res.s

\* A chain made of nonblank and strip filters only, with a nonblank in it.
NonblankChain(fs) ==
    /\ \E k \in 1..Len(fs) : fs[k] = "nonblank"
    /\ \A k \in 1..Len(fs) : fs[k] \in {"nonblank", "strip"}

HasStrip(fs) == \E k \in 1..Len(fs) : fs[k] = "strip"

\* The raw line a next() has yielded from is the last one it took.
YieldedFrom == trace.raws[Len(trace.raws)]

\* C12 as stated: a non-blank line comes out of a chain with nonblank
\* stripped only if the chain has a strip filter, and with its original
\* content (surrounding whitespace kept) when it has none.
C12_AsStated ==
    (GenPull /\ NonblankChain(trace.fs) /\ trace.res.t = "str") =>
        IF HasStrip(trace.fs) THEN IsStripped(trace.res.s, YieldedFrom)
        ELSE trace.res.s = YieldedFrom

\* C12: a non-blank line comes out of a chain with nonblank without its
\* surrounding whitespace, whether or not the chain has a strip filter.
C12_NonblankStrips ==
    (GenPull /\ NonblankChain(trace.fs) /\ trace.res.t = "str") =>
        IsStripped(trace.res.s, YieldedFrom)

\* The chain is the nonblank filter alone and a next() has yielded a line
\* that had surrounding whitespace.
C12_Witness ==
    /\ GenPull
    /\ trace.fs = <<"nonblank">>
    /\ trace.res.t = "str"
    /\ YieldedFrom[1] \in Whitespace
    /\ trace.res.s # YieldedFrom

\* =================================================================
\* The module-level filter functions
\* =================================================================
MaxLen == 2         \* characters in a line handed to _grep / _split_format

\* The lines of at most n characters over the alphabet chars.
LinesOver(chars, n) == UNION {[1..m -> chars] : m \in 0..n}

\* ------------------------------------------------------------ _grep
\* A pattern is a sequence of alternatives "a1|a2|..."; an alternative is a
\* literal, in a capturing group ("(x)") or not ("x").
Lits == {<<"x">>, <<"y">>}
Alts == [lit : Lits, grp : BOOLEAN]
Patterns == {<<a>> : a \in Alts} \cup {<<a, b>> : a \in Alts, b \in Alts}

\* The group argument: <<>> is group=None, <<g>> is group=g.
Groups == {<<>>, <<0>>, <<1>>, <<2>>}

\* The alternative a of pattern p matches in line at position i.
MatchesAt(p, a, line, i) ==
    /\ i + Len(p[a].lit) - 1 <= Len(line)
    /\ SubSeq(line, i, i + Len(p[a].lit) - 1) = p[a].lit

NoMatch == [found |-> FALSE, start |-> 0, alt |-> 0]

\* re.search(pattern, line): the leftmost position where an alternative
\* matches, and there the first alternative that does; None without one.
Search(p, line) ==
    LET at == {i \in 1..Len(line) : \E a \in 1..Len(p) : MatchesAt(p, a, line, i)}
    IN  IF at = {} THEN NoMatch
        ELSE LET i == Min(at)
             IN  [found |-> TRUE, start |-> i,
                  alt |-> Min({a \in 1..Len(p) : MatchesAt(p, a, line, i)})]

\* The number of the capturing group of alternative a (when it has one),
\* and the number of groups of the pattern.
GroupOf(p, a) == Cardinality({b \in 1..a : p[b].grp})
NGroups(p) == GroupOf(p, Len(p))

\* mat.group(g): the whole match for 0, the text of group g when it took
\* part in the match, None when it did not, IndexError when there is no
\* such group.
MatGroup(p, mat, g) ==
    IF g > NGroups(p) THEN Raise("IndexError")
    ELSE IF g = 0 THEN Str(p[mat.alt].lit)
    ELSE IF p[mat.alt].grp /\ GroupOf(p, mat.alt) = g THEN Str(p[mat.alt].lit)
    ELSE None

\* _grep, line 74: if group
GroupTruthy(group) == group # <<>> /\ group[1] # 0

\* _grep(line, pattern, flags, group)
Grep(line, p, group) ==
    LET mat == Search(p, line)
    IN  IF GroupTruthy(group)
        THEN (IF mat.found THEN MatGroup(p, mat, group[1]) ELSE None)
        ELSE (IF mat.found THEN Str(line) ELSE None)

\* The variables the filter functions do not use.
Idle ==
    /\ files = StdFiles
    /\ opened = {}
    /\ handles = Empty
    /\ lists = Empty
    /\ iters = Empty
    /\ last = Ev("start", 0, <<>>, "None", 0)

\* The grep filter is about to be called on a line.
InitGrep ==
    /\ Idle
    /\ \E line \in LinesOver({"x", "y"}, MaxLen), p \in Patterns, group \in Groups :
          trace = [op |-> "input", line |-> line, pattern |-> p, group |-> group]

\* ShellStream.grep's filter, lambda line: _grep(line, pattern, flags, group),
\* called on the line.
GrepCall ==
    /\ trace.op = "input"
    /\ trace' = [op |-> "grep", line |-> trace.line, pattern |-> trace.pattern,
                 group |-> trace.group,
                 res |-> Grep(trace.line, trace.pattern, trace.group)]
    /\ UNCHANGED <<files, opened, handles, lists, iters, last>>

NextGrep == GrepCall

SpecGrep == InitGrep /\ [][NextGrep]_vars

\* The pattern matches somewhere in the line.
MatchesSomewhere(p, line) ==
    \E i \in 1..Len(line), a \in 1..Len(p) : MatchesAt(p, a, line, i)

\* C13 as stated: the grep filter drops a line exactly when the pattern
\* matches nowhere in it; where the pattern matches, the result is the text
\* of the group whenever a group is given, group 0 (the whole match)
\* included, and the line itself when no group is given.
C13_AsStated ==
    trace.op = "grep" =>
        LET p == trace.pattern
            line == trace.line
            valid == trace.group = <<>> \/ trace.group[1] <= NGroups(p)
        IN  valid =>
              /\ trace.res = None <=> ~MatchesSomewhere(p, line)
              /\ (MatchesSomewhere(p, line) /\ trace.group = <<>>) =>
                    trace.res = Str(line)
              /\ (MatchesSomewhere(p, line) /\ trace.group # <<>>) =>
                    /\ trace.res.t = "str"
                    /\ \E a \in 1..Len(p) :
                          /\ trace.res.s = p[a].lit
                          /\ trace.group[1] \in {0, GroupOf(p, a)}

\* ---------------------------------------------------- _split_format
MaxItems == 2       \* literals and placeholders in a template

\* _split_format, line 96: m = max(fmt.count('{'), 8)
MinParts == 8

\* A template is text: literal characters and placeholders "{n}".
TemplateItems == {<<"-">>, <<"{", "0", "}">>, <<"{", "1", "}">>, <<"{", "8", "}">>}

RECURSIVE TemplatesOf(_)
TemplatesOf(n) ==
    IF n = 0 THEN {<<>>}
    ELSE TemplatesOf(n - 1) \cup
         {t \o i : t \in TemplatesOf(n - 1), i \in TemplateItems}

\* The sep argument: <<>> is sep=None (split on runs of whitespace), <<c>>
\* is the separator c.
Seps == {<<>>, <<",">>}

\* line.split(sep) for a one-character separator: the pieces between the
\* separators, empty ones included.
RECURSIVE SplitOn(_, _, _)
SplitOn(line, c, cur) ==
    IF line = <<>> THEN <<cur>>
    ELSE IF Head(line) = c THEN <<cur>> \o SplitOn(Tail(line), c, <<>>)
    ELSE SplitOn(Tail(line), c, Append(cur, Head(line)))

\* line.split(): the words between runs of whitespace, none of them empty.
RECURSIVE SplitWords(_, _)
SplitWords(line, cur) ==
    IF line = <<>> THEN (IF cur = <<>> THEN <<>> ELSE <<cur>>)
    ELSE IF Head(line) \in Whitespace
         THEN (IF cur = <<>> THEN <<>> ELSE <<cur>>) \o SplitWords(Tail(line), <<>>)
    ELSE SplitWords(Tail(line), Append(cur, Head(line)))

\* line.split(sep, maxsplit) with maxsplit = -1
Split(line, sep) ==
    IF sep = <<>> THEN SplitWords(line, <<>>) ELSE SplitOn(line, sep[1], <<>>)

\* fmt.count('{')
CountBraces(fmt) == Cardinality({i \in 1..Len(fmt) : fmt[i] = "{"})

\* lines 96-99: the parts, extended with '' up to max(fmt.count('{'), 8)
Padded(fmt, parts) ==
    LET m == Max({CountBraces(fmt), MinParts})
    IN  IF m > Len(parts) THEN parts \o [k \in 1..(m - Len(parts)) |-> <<>>]
        ELSE parts

DigitValue(c) == CASE c = "0" -> 0 [] c = "1" -> 1 [] c = "8" -> 8

\* fmt.format(*parts): literal text is copied, "{n}" is replaced by
\* parts[n]; IndexError when the tuple has no index n.
RECURSIVE Format(_, _, _)
Format(fmt, parts, acc) ==
    IF fmt = <<>> THEN Str(acc)
    ELSE IF Head(fmt) = "{"
         THEN LET n == DigitValue(fmt[2])
              IN  IF n >= Len(parts) THEN Raise("IndexError")
                  ELSE Format(SubSeq(fmt, 4, Len(fmt)), parts, acc \o parts[n + 1])
    ELSE Format(Tail(fmt), parts, Append(acc, Head(fmt)))

\* _split_format(line, fmt, sep) with flags=None
SplitFormat(line, fmt, sep) == Format(fmt, Padded(fmt, Split(line, sep)), <<>>)

\* The sf filter is about to be called on a line.
InitSf ==
    /\ Idle
    /\ \E line \in LinesOver({"a", ",", " "}, MaxLen), fmt \in TemplatesOf(MaxItems),
          sep \in Seps :
          trace = [op |-> "input", line |-> line, fmt |-> fmt, sep |-> sep]

\* ShellStream.sf's filter, lambda s: _sf(s, fmt, sep, maxsplit, flags),
\* called on the line.
SfCall ==
    /\ trace.op = "input"
    /\ trace' = [op |-> "sf", line |-> trace.line, fmt |-> trace.fmt, sep |-> trace.sep,
                 parts |-> Split(trace.line, trace.sep),
                 padded |-> Padded(trace.fmt, Split(trace.line, trace.sep)),
                 res |-> SplitFormat(trace.line, trace.fmt, trace.sep)]
    /\ UNCHANGED <<files, opened, handles, lists, iters, last>>

NextSf == SfCall

SpecSf == InitSf /\ [][NextSf]_vars

\* C14 as stated: the parts are padded with empty strings to at least
\* max(number of "{" in the template, 8) entries, and every placeholder then
\* resolves: one without a part is rendered empty and formatting never
\* fails with an IndexError ("{0}-{1}" on "a" gives "a-").
C14_AsStated ==
    trace.op = "sf" =>
        /\ Len(trace.padded) >= Max({CountBraces(trace.fmt), MinParts})
        /\ SubSeq(trace.padded, 1, Len(trace.parts)) = trace.parts
        /\ \A k \in (Len(trace.parts) + 1)..Len(trace.padded) : trace.padded[k] = <<>>
        /\ trace.res.t = "str"
        /\ (trace.fmt = <<"{", "0", "}", "-", "{", "1", "}">> /\ trace.line = <<"a">>) =>
              trace.res = Str(<<"a", "-">>)

\* ------------------------------------- pipeline: claims, continued
\* C15: only None removes a line.  When a filter returns the empty string
\* the next filter of the chain is still called, on the empty string, and
\* when the last filter returns it the empty string is what next() yields;
\* a line is passed over only after a filter has returned None for it.
C15_EmptyIsNotDropped ==
    GenPull =>
      \A j \in 1..Len(trace.raws) :
        LET cs == trace.calls[j]
        IN  /\ \A k \in 1..Len(cs) :
                  cs[k].res = Str(<<>>) =>
                     /\ k < Len(trace.fs) =>
                           /\ k < Len(cs)
                           /\ cs[k + 1].f = trace.fs[k + 1]
                           /\ cs[k + 1].arg = <<>>
                     /\ k = Len(trace.fs) =>
                           /\ j = Len(trace.raws)
                           /\ trace.res = Str(<<>>)
            /\ j < Len(trace.raws) =>
                  \E k \in 1..Len(cs) : cs[k].res = None

\* The chain is two strip filters; on a line that is only a line separator
\* the first returned the empty string, the second was called on it, and
\* next() has yielded the empty string.
C15_Witness ==
    /\ GenPull
    /\ trace.fs = <<"strip", "strip">>
    /\ trace.res.t = "str"
    /\ YieldedFrom = <<"\n">>
    /\ Len(trace.calls[Len(trace.raws)]) = 2
    /\ trace.calls[Len(trace.raws)][1].res = Str(<<>>)
    /\ trace.calls[Len(trace.raws)][2].arg = <<>>
    /\ trace.res = Str(<<>>)

\* The numbers of the raw lines of file f the iterator i has taken.
Taken(i) == {iters[i].raw[k] : k \in 1..Len(iters[i].raw)}

\* C16: when a pipeline and its copy are iterated in any interleaving over
\* the same file, every raw line read so far has been taken by exactly one
\* iteration (none by two, none by nobody), each iteration has its lines in
\* raw-line order, and every line has been put through the chain of the
\* pipeline whose iterator took it.
C16_RaceSplitsLines ==
    /\ \A i \in DOMAIN iters, j \in DOMAIN iters :
          i # j => Taken(i) \cap Taken(j) = {}
    /\ \A f \in DOMAIN files \cap Heap :
          UNION {Taken(i) : i \in {j \in DOMAIN iters : iters[j].file = f}}
              = 1..files[f].pos
    /\ \A i \in DOMAIN iters :
          /\ Increasing(iters[i].raw)
          /\ Cardinality(Taken(i)) = Len(iters[i].raw)
          /\ iters[i].out =
                IF iters[i].kind = "gen"
                THEN Survivors(Filters(iters[i].h), FileLines(iters[i].file, iters[i].raw))
                ELSE FileLines(iters[i].file, iters[i].raw)
    /\ GenPull =>
          /\ trace.fs = Filters(trace.h)
          /\ trace.res.t = "str" =>
                trace.res = ChainValue(Filters(trace.h), YieldedFrom)

\* The iterators of a pipeline and of its copy, whose chain has one filter
\* more, have taken one line each, the copy's the first and the original's
\* the second, and what they yielded differs from what the other's chain
\* would have made of it.
C16_Witness ==
    \E i \in DOMAIN iters, j \in DOMAIN iters :
        /\ iters[i].h = 1
        /\ iters[j].h = 2
        /\ iters[i].kind = "gen"
        /\ iters[j].kind = "gen"
        /\ Filters(1) # Filters(2)
        /\ iters[j].raw = <<1>>
        /\ iters[i].raw = <<2>>
        /\ Len(iters[i].out) = 1
        /\ Len(iters[j].out) = 1
        /\ Str(iters[i].out[1]) # ChainValue(Filters(2), files[iters[i].file].lines[2])

\* =================================================================
\* Handles sharing a file object
\* =================================================================
\* handle.closed: Stream.__getattr__ forwards the attribute to the file.
Closed(h) == files[handles[h].file].closed

\* Handle 1 has just been returned by cls.open(path).
InitShare ==
    \E cls \in Classes : HandleOver(cls, File("factory", "r", FALSE, <<>>))

\* More handles are made over existing file objects, by copy() and by the
\* constructor, and handles are entered and exited; none is let go of.
NextShare ==
    \/ \E h \in H : Copy(h)
    \/ \E cls \in Classes, f \in Std \cup Heap : ConstructOver(cls, f)
    \/ \E h \in H : Enter(h)
    \/ \E h \in H, exc \in Excs : Exit(h, exc)

SpecShare == InitShare /\ [][NextShare]_vars

\* C17: what exit closes is decided by the file object, not by the handle:
\* the exit of any handle over a file that Stream.open created (a copy of
\* the handle open returned, a handle constructed over the same file) closes
\* the file, and every handle over that file then reports it closed; a
\* handle over another file is not affected.
C17_SharedFileClosedForAll ==
    last.op = "exit" =>
        \A g \in DOMAIN handles :
            IF handles[g].file = handles[1].file
            THEN handles[last.h].file = handles[1].file => Closed(g)
            ELSE ~Closed(g)

\* A handle that open did not return, over the file of the handle that open
\* returned, has just been exited, and the handle that open returned reports
\* its file closed.
C17_Witness ==
    /\ last.op = "exit"
    /\ last.h # 1
    /\ handles[last.h].file = handles[1].file
    /\ Closed(1)

\* C18: a generator made while the chain was not empty filters every line
\* with the chain its pipeline has when the line is pulled: a filter
\* appended after the iteration started is called for the lines pulled
\* after the append, and appending changes nothing of what the iterators
\* have taken and yielded before.
C18_State ==
    GenPull =>
        LET fs == Filters(trace.h)
            n == Len(trace.raws)
        IN  \A j \in 1..n :
              LET cs == trace.calls[j]
                  v == ChainValue(fs, trace.raws[j])
              IN  /\ Len(cs) <= Len(fs)
                  /\ \A k \in 1..Len(cs) : cs[k].f = fs[k]
                  /\ Len(cs) < Len(fs) => cs[Len(cs)].res.t # "str"
                  /\ j < n => v = None
                  /\ (j = n /\ trace.res.t # "stop") => trace.res = v

C18_Step ==
    last'.op \in AddOps => UNCHANGED <<files, iters>>

C18_ChainReadAtEachPull == []C18_State /\ [][C18_Step]_vars

\* An iterator was made of a pipeline whose chain was the strip filter and
\* yielded the first line; nonblank was appended; the next next() called
\* strip and then nonblank on the second line, which was dropped.
C18_Witness ==
    /\ GenPull
    /\ Filters(trace.h) = <<"strip", "nonblank">>
    /\ iters[trace.it].n0 = 1
    /\ iters[trace.it].raw = <<1, 2>>
    /\ Len(iters[trace.it].out) = 1
    /\ trace.raws = <<files[trace.file].lines[2]>>
    /\ Len(trace.calls[1]) = 2
    /\ trace.calls[1][2].f = "nonblank"
    /\ trace.calls[1][2].res = None
    /\ trace.res = Stop

\* C19: an iterator made while the chain is empty is the file's own line
\* iterator: it yields the raw lines unchanged and calls no filter, also
\* for the lines pulled after filters have been appended; an iterator made
\* of a pipeline whose chain is not empty is a generator, which applies the
\* chain.
C19_EmptyChainIteratorStaysRaw ==
    /\ last.op = "iter" =>
          iters[last.ret].kind =
              IF handles[last.h].cls = "ShellStream" /\ Filters(last.h) # <<>>
              THEN "gen" ELSE "raw"
    /\ \A i \in DOMAIN iters :
          /\ iters[i].n0 = 0 <=> iters[i].kind = "raw"
          /\ iters[i].n0 = 0 => iters[i].out = FileLines(iters[i].file, iters[i].raw)
    /\ (trace.op = "next" /\ iters[trace.it].n0 = 0) =>
          /\ trace.calls = <<>>
          /\ trace.res.t = "str" =>
                /\ trace.raws = <<trace.res.s>>
                /\ trace.res.s = files[trace.file].lines[trace.from + 1]
    /\ (trace.op = "next" /\ iters[trace.it].n0 > 0 /\ ~trace.was /\ trace.res.t = "str") =>
          trace.res = ChainValue(Filters(trace.h), YieldedFrom)

\* An iterator was made while the chain was empty, the strip filter was
\* appended, and the next next() on the iterator has yielded a raw line
\* with its surrounding whitespace.
C19_Witness ==
    /\ trace.op = "next"
    /\ iters[trace.it].n0 = 0
    /\ Filters(trace.h) = <<"strip">>
    /\ trace.res.t = "str"
    /\ trace.res # ChainValue(Filters(trace.h), YieldedFrom)

\* An iterator made after the append has yielded the line stripped.
C19_WitnessNew ==
    /\ trace.op = "next"
    /\ iters[trace.it].n0 = 1
    /\ Filters(trace.h) = <<"strip">>
    /\ trace.res.t = "str"
    /\ trace.res.s # YieldedFrom

====
